---- MODULE Spec2Model ----
(***************************************************************************)
(* Polyglot-CPP (src/main.py): the program lifecycle manager of the C++    *)
(* MCP server.  The state is the in-memory store cpp_files, the persisted  *)
(* store file cpp_files.json, the files under cpps/ and the wall clock.    *)
(* Every tool handler is a coroutine without a suspension point            *)
(* (subprocess.run blocks the event loop), so one handler is one action.   *)
(* Spec: calls one at a time on a filesystem whose deletions succeed;      *)
(* SpecFS: an os.remove may fail; SpecDamaged: cpp_files.json may be lost  *)
(* or damaged; SpecLoop: calls are submitted while others wait or run.     *)
(***************************************************************************)
EXTENDS Integers, Sequences, FiniteSets, TLC

\* ---------------------------------------------------------------- bounds
MaxIds == 2          \* how many values uuid4() returns in one behaviour
UsPerSec == 2        \* clock units per "second" field of an ISO timestamp
SecPerDay == 1       \* "seconds" per day of the model's clock
MaxTime == 5         \* the last clock value the model reaches
MaxGap == 1          \* clock units between build and run in create_and_run
MaxPending == 2      \* how many submitted calls can wait for the event loop

\* ------------------------------------------------------ program constants
RetentionDays == 1   \* timedelta(days=1)
RunTimeout == 10     \* subprocess.run(..., timeout=10)
ReportLimit == 500   \* profiling_report[:500]
DiffContext == 3     \* difflib.unified_diff(..., n=3), the default
AutojunkLines == 200 \* difflib.SequenceMatcher(autojunk=True), the default

Ids == 1..MaxIds
Day == RetentionDays * SecPerDay * UsPerSec
Times == 0..MaxTime

\* ------------------------------------------------------------- timestamps
\* datetime.isoformat(): the fixed-width date-and-time field, followed by the
\* microsecond field only when the microsecond is not zero.
Isoformat(t) ==
    IF t % UsPerSec = 0 THEN << t \div UsPerSec >>
                        ELSE << t \div UsPerSec, t % UsPerSec >>

\* Python's str "<": lexicographic, a proper prefix is smaller.
RECURSIVE StrLess(_, _)
StrLess(a, b) ==
    IF b = << >> THEN FALSE
    ELSE IF a = << >> THEN TRUE
    ELSE IF Head(a) # Head(b) THEN Head(a) < Head(b)
    ELSE StrLess(Tail(a), Tail(b))

\* ------------------------------------------------------------------ paths
SourcePath(id) == << "cpps", id, ".cpp" >>
OutputPath(id) == << "cpps", id, "" >>
GmonOut == << ".", 0, "gmon.out" >>

\* ------------------------------------------------------ the store and file
EmptyDict == [k \in {} |-> k]

DictSet(m, k, v) == [x \in (DOMAIN m) \cup {k} |-> IF x = k THEN v ELSE m[x]]
DictDel(m, k) == [x \in (DOMAIN m) \ {k} |-> m[x]]

\* json.dump / json.load of the mapping: the file holds the key/value members.
JsonDump(m) == {[key |-> k, value |-> m[k]] : k \in DOMAIN m}
JsonLoad(text) ==
    [k \in {e.key : e \in text} |-> (CHOOSE e \in text : e.key = k).value]

\* cpp_files.json: whether it exists, whether its bytes decode as text,
\* whether the text is JSON, and the members of the JSON object.
NoFile == [exists |-> FALSE, text |-> FALSE, valid |-> FALSE, entries |-> {}]

\* load_cpp_files: the new value of cpp_files.
LoadCppFiles(file) ==
    IF file.exists
    THEN IF file.valid THEN JsonLoad(file.entries) ELSE EmptyDict
    ELSE EmptyDict

\* save_cpp_files: the new content of cpp_files.json.
SaveCppFiles(m) ==
    [exists |-> TRUE, text |-> TRUE, valid |-> TRUE, entries |-> JsonDump(m)]

\* load_cpp_files raises: f.read() inside json.load raises UnicodeDecodeError,
\* which "except json.JSONDecodeError" does not catch; cpp_files is not assigned.
LoadRaises(file) == file.exists /\ ~file.text

\* os.remove(p) succeeds when p exists and the filesystem does not refuse it.
OsRemoveOk(fs, p, denied) == p \in fs /\ p \notin denied

\* ---------------------------------------------------------------- reaper
\* to_delete of cleanup_expired_files at clock t.
ToDelete(m, t) == {id \in DOMAIN m : StrLess(m[id].expiration, Isoformat(t))}

\* Mutant: an OSError of os.remove is not caught; the loop stops at the first
\* record (in key order) whose deletion fails and save_cpp_files is not reached.
CleanupAbortsOnError(m, file, fs, t, denied) ==
    LET del == ToDelete(m, t)
        failed == {i \in del : \/ ~OsRemoveOk(fs, m[i].source_path, denied)
                              \/ ~OsRemoveOk(fs, m[i].output_path, denied)}
        done == {i \in del : \A j \in failed : i <= j}
        kept == [id \in (DOMAIN m) \ done |-> m[id]]
        goneSrc == {m[id].source_path : id \in
                      {i \in done : OsRemoveOk(fs, m[i].source_path, denied)}}
        goneOut == {m[id].output_path : id \in done \ failed}
    IN  [cpp_files |-> kept,
         storeFile |-> IF del # {} /\ failed = {} THEN SaveCppFiles(kept) ELSE file,
         files |-> (fs \ goneSrc) \ goneOut,
         swept |-> done]

\* cleanup_expired_files: the store, the store file and the files afterwards.
CleanupExpiredFiles(m, file, fs, t, denied) ==
    LET del == ToDelete(m, t)
        kept == [id \in (DOMAIN m) \ del |-> m[id]]
        goneSrc == {m[id].source_path : id \in
                      {i \in del : OsRemoveOk(fs, m[i].source_path, denied)}}
        goneOut == {m[id].output_path : id \in
                      {i \in del : /\ OsRemoveOk(fs, m[i].source_path, denied)
                                   /\ OsRemoveOk(fs, m[i].output_path, denied)}}
    IN  [cpp_files |-> kept,
         storeFile |-> IF del # {} THEN SaveCppFiles(kept) ELSE file,
         files |-> (fs \ goneSrc) \ goneOut,
         swept |-> del]

\* ------------------------------------------------------------- responses
NotFound == [success |-> FALSE, error |-> "File ID not found."]
Expired == [success |-> FALSE, error |-> "File ID has expired."]
TimedOut == [success |-> FALSE, error |-> "Execution timed out after 10 seconds."]
\* The handler ends by an uncaught exception instead of a response.
Raised(exc) == [raised |-> exc]

IsError(r, msg) == "error" \in DOMAIN r /\ r.error = msg
IsRaised(r) == "raised" \in DOMAIN r
IsSuccess(r) == "success" \in DOMAIN r /\ r.success

\* --------------------------------------------------- external collaborators
\* Source texts, and what clang++ makes of them.
Contents == {"good", "bad"}
Clang(content) ==
    IF content = "good" THEN [returncode |-> 0, stderr |-> ""]
                        ELSE [returncode |-> 1, stderr |-> "error: expected ';'"]

\* A text (stdout, expected_output, a report) is the sequence of its characters.
\* What one execution of an artifact can do: seconds taken, exit status
\* (negative: killed by a signal), captured output, and whether the process
\* left gmon.out behind.  The -pg runtime writes it from an exit handler, so a
\* return from main or exit() writes it with any status, while _exit(), a
\* sanitizer abort and a signal do not.
RunOutcomes ==
    { [duration |-> 1, returncode |-> 0, stdout |-> << "a" >>, stderr |-> "",
       gmon |-> TRUE],
      [duration |-> 1, returncode |-> 0, stdout |-> << "a" >>, stderr |-> "",
       gmon |-> FALSE],
      [duration |-> 1, returncode |-> 1, stdout |-> << "a", "\n", "b" >>,
       stderr |-> "e", gmon |-> TRUE],
      [duration |-> 1, returncode |-> 1, stdout |-> << >>, stderr |-> "asan",
       gmon |-> FALSE],
      [duration |-> 1, returncode |-> -11, stdout |-> << >>, stderr |-> "",
       gmon |-> FALSE],
      [duration |-> 11, returncode |-> 0, stdout |-> << >>, stderr |-> "",
       gmon |-> FALSE] }
\* The arguments custom_input and expected_output of one request;
\* Optional[str]: << >> is None, << s >> is the text s.
Requests == { [custom_input |-> "", expected_output |-> << >>],
              [custom_input |-> "x", expected_output |-> << << "a" >> >>] }
NoRequest == [custom_input |-> "", expected_output |-> << >>]
GprofReport == << "%", " ", " ", " ", "t" >>

\* Mutant: a nonzero exit status is treated like a timeout.
TimesOutOrFails(outcome) ==
    outcome.duration > RunTimeout \/ outcome.returncode # 0

\* subprocess.run raises TimeoutExpired.
TimesOut(outcome) == outcome.duration > RunTimeout
\* The artifact ended by itself and its exit handler wrote gmon.out.
WritesGmon(outcome) == ~TimesOut(outcome) /\ outcome.gmon

\* ------------------------------------------------------------------ difflib
Min(x, y) == IF x < y THEN x ELSE y
Max(x, y) == IF x < y THEN y ELSE x

\* The element of a singleton: The({F(x) : x \in {e}}) is F(e) with e
\* computed once.
The(S) == CHOOSE x \in S : TRUE

\* seqs[k] \o ... \o seqs[Len(seqs)].
RECURSIVE ConcatFrom(_, _)
ConcatFrom(seqs, k) ==
    IF k > Len(seqs) THEN << >> ELSE seqs[k] \o ConcatFrom(seqs, k + 1)
Concat(seqs) == ConcatFrom(seqs, 1)

\* The characters at which str.splitlines ends a line ("\r\n" ends one line);
\* a character without an escape in a string is written by its code point.
LineBoundaries ==
    {"\n", "\r", "U+000B", "\f", "U+001C", "U+001D", "U+001E", "U+0085",
     "U+2028", "U+2029"}

\* Where the first line of the non-empty text s ends.
FirstLineEnd(s) ==
    LET ends == {i \in 1..Len(s) : s[i] \in LineBoundaries}
        i == CHOOSE x \in ends : \A y \in ends : x <= y
    IN  IF ends = {} THEN Len(s)
        ELSE IF s[i] = "\r" /\ i < Len(s) /\ s[i + 1] = "\n" THEN i + 1
        ELSE i

\* str.splitlines(keepends=True).
RECURSIVE SplitLines(_)
SplitLines(s) ==
    IF s = << >> THEN << >>
    ELSE The({ << SubSeq(s, 1, j) >> \o SplitLines(SubSeq(s, j + 1, Len(s))) :
                 j \in {FirstLineEnd(s)} })

\* a[i:i+k] == b[j:j+k], with the offsets of Python (from 0).
BlockMatches(a, b, i, j, k) == \A d \in 1..k : a[i + d] = b[j + d]

\* SequenceMatcher.__chain_b with autojunk and no junk function: in a b of
\* AutojunkLines lines or more, the lines that occur more than
\* len(b) // 100 + 1 times are popular and are left out of the index b2j.
Popular(b) ==
    IF Len(b) < AutojunkLines THEN {}
    ELSE {b[j] : j \in {j \in 1..Len(b) :
                          Cardinality({i \in 1..Len(b) : b[i] = b[j]})
                              > (Len(b) \div 100) + 1}}

\* The first loop of find_longest_match: the longest block of lines found
\* through b2j, of those the earliest in a, of those the earliest in b.
LongestIndexedMatch(a, alo, ahi, b, blo, bhi, popular) ==
    LET blocks == {c \in (alo..(ahi - 1)) \X (blo..(bhi - 1)) \X (1..(ahi - alo)) :
                     /\ c[1] + c[3] <= ahi
                     /\ c[2] + c[3] <= bhi
                     /\ BlockMatches(a, b, c[1], c[2], c[3])
                     /\ \A d \in 1..c[3] : b[c[2] + d] \notin popular}
        Before(c, o) == \/ c[3] > o[3]
                        \/ c[3] = o[3] /\ c[1] < o[1]
                        \/ c[3] = o[3] /\ c[1] = o[1] /\ c[2] <= o[2]
    IN  IF blocks = {} THEN << alo, blo, 0 >>
        ELSE CHOOSE c \in blocks : \A o \in blocks : Before(c, o)

\* The loops of find_longest_match that extend the block by the equal lines
\* before it: popular lines are not junk, so they extend it.
ExtendBack(a, alo, b, blo, x) ==
    LET back == CHOOSE d \in 0..Min(x[1] - alo, x[2] - blo) :
                  /\ BlockMatches(a, b, x[1] - d, x[2] - d, d)
                  /\ \A e \in (d + 1)..Min(x[1] - alo, x[2] - blo) :
                        ~BlockMatches(a, b, x[1] - e, x[2] - e, e)
    IN  << x[1] - back, x[2] - back, x[3] + back >>

\* ... and by the equal lines after it.
ExtendForward(a, ahi, b, bhi, x) ==
    LET room == Min(ahi - (x[1] + x[3]), bhi - (x[2] + x[3]))
        more == CHOOSE d \in 0..room :
                  /\ BlockMatches(a, b, x[1] + x[3], x[2] + x[3], d)
                  /\ \A e \in (d + 1)..room :
                        ~BlockMatches(a, b, x[1] + x[3], x[2] + x[3], e)
    IN  << x[1], x[2], x[3] + more >>

\* SequenceMatcher.find_longest_match; with no junk its last two loops, which
\* extend the block by junk, do nothing.
FindLongestMatch(a, alo, ahi, b, blo, bhi) ==
    The({ The({ ExtendForward(a, ahi, b, bhi, back) :
                  back \in {ExtendBack(a, alo, b, blo, x)} }) :
            x \in {The({ LongestIndexedMatch(a, alo, ahi, b, blo, bhi, popular) :
                           popular \in {Popular(b)} })} })

\* SequenceMatcher.get_matching_blocks, without the closing (la, lb, 0): the
\* blocks left of the longest match x, x, and the blocks right of it.
RECURSIVE MatchingBlocks(_, _, _, _, _, _)
MatchingBlocksAround(a, alo, ahi, b, blo, bhi, x) ==
    IF x[3] = 0 THEN << >>
    ELSE (IF alo < x[1] /\ blo < x[2]
          THEN MatchingBlocks(a, alo, x[1], b, blo, x[2]) ELSE << >>)
         \o << x >>
         \o (IF x[1] + x[3] < ahi /\ x[2] + x[3] < bhi
             THEN MatchingBlocks(a, x[1] + x[3], ahi, b, x[2] + x[3], bhi)
             ELSE << >>)
MatchingBlocks(a, alo, ahi, b, blo, bhi) ==
    The({ MatchingBlocksAround(a, alo, ahi, b, blo, bhi, x) :
            x \in {FindLongestMatch(a, alo, ahi, b, blo, bhi)} })

\* SequenceMatcher.get_opcodes: << tag, i1, i2, j1, j2 >>.
RECURSIVE OpcodesFrom(_, _, _)
OpcodesFrom(blocks, i, j) ==
    IF blocks = << >> THEN << >>
    ELSE LET ai == blocks[1][1]
             bj == blocks[1][2]
             size == blocks[1][3]
             gap == IF i < ai /\ j < bj THEN << << "replace", i, ai, j, bj >> >>
                    ELSE IF i < ai THEN << << "delete", i, ai, j, bj >> >>
                    ELSE IF j < bj THEN << << "insert", i, ai, j, bj >> >>
                    ELSE << >>
             equal == IF size > 0
                      THEN << << "equal", ai, ai + size, bj, bj + size >> >>
                      ELSE << >>
         IN  gap \o equal \o OpcodesFrom(Tail(blocks), ai + size, bj + size)

GetOpcodes(a, b) ==
    OpcodesFrom(MatchingBlocks(a, 0, Len(a), b, 0, Len(b))
                    \o << << Len(a), Len(b), 0 >> >>, 0, 0)

\* The head and the tail of an equal run, n lines each.
HeadOf(c, n) == << c[1], c[2], Min(c[3], c[2] + n), c[4], Min(c[5], c[4] + n) >>
TailOf(c, n) == << c[1], Max(c[2], c[3] - n), c[3], Max(c[4], c[5] - n), c[5] >>

RECURSIVE GroupOpcodes(_, _, _)
GroupOpcodes(codes, group, n) ==
    IF codes = << >>
    THEN IF group # << >> /\ ~(Len(group) = 1 /\ group[1][1] = "equal")
         THEN << group >> ELSE << >>
    ELSE LET c == codes[1]
         IN  IF c[1] = "equal" /\ c[3] - c[2] > n + n
             THEN << Append(group, HeadOf(c, n)) >>
                  \o GroupOpcodes(Tail(codes), << TailOf(c, n) >>, n)
             ELSE GroupOpcodes(Tail(codes), Append(group, c), n)

\* get_grouped_opcodes: the first and the last opcode cut to n lines when
\* they are equal runs.
TrimEnds(codes, n) ==
    LET codes0 == IF codes = << >> THEN << << "equal", 0, 1, 0, 1 >> >> ELSE codes
        codes1 == IF codes0[1][1] = "equal"
                  THEN << TailOf(codes0[1], n) >> \o Tail(codes0) ELSE codes0
        last == Len(codes1)
    IN  IF codes1[last][1] = "equal"
        THEN SubSeq(codes1, 1, last - 1) \o << HeadOf(codes1[last], n) >>
        ELSE codes1

\* SequenceMatcher.get_grouped_opcodes(n).
GetGroupedOpcodes(a, b, n) ==
    The({ The({ GroupOpcodes(trimmed, << >>, n) : trimmed \in {TrimEnds(codes, n)} }) :
            codes \in {GetOpcodes(a, b)} })

\* difflib._format_range_unified: << start >> prints "start", << start, length >>
\* prints "start,length".
FormatRangeUnified(start, stop) ==
    IF stop - start = 1 THEN << start + 1 >>
    ELSE IF stop - start = 0 THEN << start, 0 >>
    ELSE << start + 1, stop - start >>

\* The lines lines[lo:hi], each behind the marker.
Marked(marker, lines, lo, hi) == [k \in 1..(hi - lo) |-> << marker, lines[lo + k] >>]

OpcodeLines(a, b, c) ==
    IF c[1] = "equal" THEN Marked(" ", a, c[2], c[3])
    ELSE (IF c[1] \in {"replace", "delete"} THEN Marked("-", a, c[2], c[3]) ELSE << >>)
         \o (IF c[1] \in {"replace", "insert"} THEN Marked("+", b, c[4], c[5]) ELSE << >>)

\* One hunk: << "@@", range in a, range in b >>, then its lines.
Hunk(a, b, group) ==
    << << "@@", FormatRangeUnified(group[1][2], group[Len(group)][3]),
                FormatRangeUnified(group[1][4], group[Len(group)][5]) >> >>
    \o Concat([g \in 1..Len(group) |-> OpcodeLines(a, b, group[g])])

\* The pieces unified_diff yields for the lines a and b, in order.
UnifiedDiffOfLines(a, b) ==
    The({ IF groups = << >> THEN << >>
          ELSE << "--- expected_output", "+++ actual_output" >>
               \o Concat([g \in 1..Len(groups) |-> Hunk(a, b, groups[g])]) :
            groups \in {GetGroupedOpcodes(a, b, DiffContext)} })

\* "".join(difflib.unified_diff(expected.splitlines(keepends=True),
\* actual.splitlines(keepends=True), fromfile=..., tofile=...)): the pieces
\* joined; << >> is the empty text.
UnifiedDiff(expected, actual) ==
    The({ UnifiedDiffOfLines(a, b) :
            a \in {SplitLines(expected)}, b \in {SplitLines(actual)} })

\* diff_result of _run_program.
DiffResult(expected_output, stdout) ==
    IF expected_output = << >> THEN << >>
    ELSE << UnifiedDiff(expected_output[1], stdout) >>

\* str.replace("  ", " "): left to right, without overlap.
RECURSIVE ReplaceDouble(_)
ReplaceDouble(s) ==
    IF Len(s) < 2 THEN s
    ELSE IF s[1] = " " /\ s[2] = " "
         THEN << " " >> \o ReplaceDouble(SubSeq(s, 3, Len(s)))
         ELSE << s[1] >> \o ReplaceDouble(Tail(s))

NormalizeReport(s) ==
    LET r == ReplaceDouble(ReplaceDouble(ReplaceDouble(ReplaceDouble(s))))
    IN  SubSeq(r, 1, IF Len(r) < ReportLimit THEN Len(r) ELSE ReportLimit)

\* One subprocess.run: the command, the binary it is about, its stdin, and
\* what the process did.
Proc(cmd, path, stdin, result) ==
    [cmd |-> cmd, path |-> path, stdin |-> stdin, result |-> result]

\* What a handler did: the new store, store file and files, its response,
\* the subprocesses it started, whether it called load_cpp_files.
Step(m, file, fs, response, procs, loaded) ==
    [cpp_files |-> m, storeFile |-> file, files |-> fs, response |-> response,
     procs |-> procs, loaded |-> loaded]

\* -------------------------------------------------------------- _create_program
\* Mutant: the source file of a failed build is not removed.
BuildFailureKeepsSource(m, file, fs1, source_path, compile_result, procs, denied) ==
    Step(m, file, fs1, [success |-> FALSE, error |-> compile_result.stderr],
         procs, FALSE)

\* compile_result.returncode != 0 (lines 103-106); fs1 holds the source file.
BuildFailure(m, file, fs1, source_path, compile_result, procs, denied) ==
    IF OsRemoveOk(fs1, source_path, denied)
    THEN Step(m, file, fs1 \ {source_path},
              [success |-> FALSE, error |-> compile_result.stderr], procs, FALSE)
    ELSE Step(m, file, fs1, Raised("OSError"), procs, FALSE)

\* Mutant: the retention period is not added to the creation time.
NewRecordNoRetention(file_id, source_path, output_path, t) ==
    [output_path |-> output_path,
     source_path |-> source_path,
     expiration |-> Isoformat(t)]

\* The record inserted for file_id at clock t (lines 108-113).
NewRecord(file_id, source_path, output_path, t) ==
    [output_path |-> output_path,
     source_path |-> source_path,
     expiration |-> Isoformat(t + Day)]

\* Mutant: the handler saves a copy of the store it took before another
\* handler inserted its record; the file ends with the new record only.
BuildSuccessFromStaleCopy(m, fs2, t, file_id, source_path, output_path, procs) ==
    LET rec == NewRecord(file_id, source_path, output_path, t)
    IN  Step(DictSet(m, file_id, rec), SaveCppFiles(DictSet(EmptyDict, file_id, rec)),
             fs2, [success |-> TRUE, file_id |-> file_id], procs, FALSE)

\* The compiler succeeded (lines 108-116); fs2 holds source and output file.
BuildSuccess(m, fs2, t, file_id, source_path, output_path, procs) ==
    LET m2 == DictSet(m, file_id, NewRecord(file_id, source_path, output_path, t))
    IN  Step(m2, SaveCppFiles(m2), fs2,
             [success |-> TRUE, file_id |-> file_id], procs, FALSE)

\* The outcome of _create_program at clock t with uuid4() = file_id.
CreateProgramStep(m, file, fs, t, file_id, content, denied) ==
    LET source_path == SourcePath(file_id)
        output_path == OutputPath(file_id)
        fs1 == fs \cup {source_path}
        compile_result == Clang(content)
        procs == << Proc("clang++", output_path, "", compile_result) >>
    IN  IF compile_result.returncode # 0
        THEN BuildFailure(m, file, fs1, source_path, compile_result, procs, denied)
        ELSE BuildSuccess(m, fs1 \cup {output_path}, t, file_id, source_path,
                          output_path, procs)

\* ----------------------------------------------------------------- _run_program
\* Mutant: now >= expiration.
IsExpiredAtOrAfter(info, t) == ~StrLess(Isoformat(t), info.expiration)

\* now > expiration, on the ISO strings (line 133).
IsExpired(info, t) == StrLess(info.expiration, Isoformat(t))

\* Mutant: the reloaded store is written back before the not-found response.
NotFoundBranchSaves(m1, file, fs) ==
    Step(m1, SaveCppFiles(m1), fs, NotFound, << >>, TRUE)

\* file_id is not in cpp_files after the reload (lines 127-129).
NotFoundBranch(m1, file, fs) == Step(m1, file, fs, NotFound, << >>, TRUE)

\* Mutant: the expired branch without its save_cpp_files().
ExpiredBranchNoSave(m1, file, fs, file_id, denied) ==
    LET file_info == m1[file_id]
    IN  Step(DictDel(m1, file_id), file,
             (fs \ {file_info.source_path}) \ {file_info.output_path},
             Expired, << >>, TRUE)

\* The branch of an expired record (lines 133-139).
ExpiredBranch(m1, file, fs, file_id, denied) ==
    LET file_info == m1[file_id]
        m2 == DictDel(m1, file_id)
        fs1 == fs \ {file_info.source_path}
    IN  IF ~OsRemoveOk(fs, file_info.source_path, denied)
        THEN Step(m2, file, fs, Raised("OSError"), << >>, TRUE)
        ELSE IF ~OsRemoveOk(fs1, file_info.output_path, denied)
        THEN Step(m2, file, fs1, Raised("OSError"), << >>, TRUE)
        ELSE Step(m2, SaveCppFiles(m2), fs1 \ {file_info.output_path},
                  Expired, << >>, TRUE)

\* The response of a run that ended within the timeout (lines 167-187).
RunResponse(outcome, expected_output, gprof_stdout) ==
    [success |-> TRUE,
     stdout |-> outcome.stdout,
     stderr |-> outcome.stderr,
     diff |-> DiffResult(expected_output, outcome.stdout),
     run_time |-> outcome.duration,
     profiling_report |-> NormalizeReport(gprof_stdout)]

\* Mutant: a timeout is handled like an expiry, the artifact is deleted.
TimeoutBranchDeletes(m1, file, fs, file_id, artifact) ==
    LET m2 == DictDel(m1, file_id)
    IN  Step(m2, SaveCppFiles(m2),
             (fs \ {m1[file_id].source_path}) \ {m1[file_id].output_path},
             TimedOut, << artifact >>, TRUE)

\* except subprocess.TimeoutExpired (lines 164-165).
TimeoutBranch(m1, file, fs, file_id, artifact) ==
    Step(m1, file, fs, TimedOut, << artifact >>, TRUE)

\* The execution of the artifact and of the profiler (lines 141-187).
ExecuteBranch(m1, file, fs, file_id, custom_input, expected_output, outcome, denied) ==
    LET file_info == m1[file_id]
        artifact == Proc("artifact", file_info.output_path, custom_input, outcome)
        fsRun == IF WritesGmon(outcome) THEN fs \cup {GmonOut} ELSE fs
        gprof_stdout == IF GmonOut \in fsRun THEN GprofReport ELSE << >>
        gprof == Proc("gprof", file_info.output_path, "",
                      [stdout |-> gprof_stdout])
    IN  IF TimesOut(outcome)
        THEN TimeoutBranch(m1, file, fs, file_id, artifact)
        ELSE IF GmonOut \in fsRun /\ ~OsRemoveOk(fsRun, GmonOut, denied)
        THEN Step(m1, file, fsRun, Raised("OSError"), << artifact, gprof >>, TRUE)
        ELSE Step(m1, file, fsRun \ {GmonOut},
                  RunResponse(outcome, expected_output, gprof_stdout),
                  << artifact, gprof >>, TRUE)

\* The outcome of _run_program at clock t.
RunProgramStep(file, fs, t, file_id, custom_input, expected_output, outcome, denied) ==
    LET m1 == LoadCppFiles(file)
    IN  IF file_id \notin DOMAIN m1
        THEN NotFoundBranch(m1, file, fs)
        ELSE IF IsExpired(m1[file_id], t)
        THEN ExpiredBranch(m1, file, fs, file_id, denied)
        ELSE ExecuteBranch(m1, file, fs, file_id, custom_input,
                           expected_output, outcome, denied)

\* ------------------------------------------------------ _create_and_run_program
\* Mutant: the run is attempted whatever the build returned.
CreateAndRunStepAlwaysRuns(m, file, fs, t, gap, file_id, content, custom_input, expected_output, outcome, denied) ==
    LET c == CreateProgramStep(m, file, fs, t, file_id, content, denied)
        r == RunProgramStep(c.storeFile, c.files, t + gap, file_id,
                            custom_input, expected_output, outcome, denied)
    IN  [r EXCEPT !.procs = c.procs \o r.procs,
                  !.response = [create_result |-> c.response,
                                run_result |-> r.response]]

\* Mutant: the commented-out cleanup of lines 204-209 is active.
CreateAndRunStepCleansUp(m, file, fs, t, gap, file_id, content, custom_input, expected_output, outcome, denied) ==
    LET c == CreateProgramStep(m, file, fs, t, file_id, content, denied)
        r == RunProgramStep(c.storeFile, c.files, t + gap, file_id,
                            custom_input, expected_output, outcome, denied)
        m3 == DictDel(r.cpp_files, file_id)
    IN  IF ~c.response.success
        THEN c
        ELSE IF file_id \in DOMAIN r.cpp_files
        THEN Step(m3, SaveCppFiles(m3),
                  (r.files \ {SourcePath(file_id)}) \ {OutputPath(file_id)},
                  [create_result |-> c.response, run_result |-> r.response],
                  c.procs \o r.procs, TRUE)
        ELSE [r EXCEPT !.procs = c.procs \o r.procs,
                       !.response = [create_result |-> c.response,
                                     run_result |-> r.response]]

\* Build at clock t, then (only after a successful build) run at clock t + gap.
CreateAndRunStep(m, file, fs, t, gap, file_id, content, custom_input, expected_output, outcome, denied) ==
    LET c == CreateProgramStep(m, file, fs, t, file_id, content, denied)
        r == RunProgramStep(c.storeFile, c.files, t + gap, c.response.file_id,
                            custom_input, expected_output, outcome, denied)
    IN  IF IsRaised(c.response) \/ ~c.response.success
        THEN c
        ELSE IF IsRaised(r.response)
        THEN [r EXCEPT !.procs = c.procs \o r.procs]
        ELSE [r EXCEPT !.procs = c.procs \o r.procs,
                       !.response = [create_result |-> c.response,
                                     run_result |-> r.response]]

\* ------------------------------------------------------------------ state
VARIABLES
    now,          \* the wall clock, datetime.now()
    cpp_files,    \* the module-level dict
    storeFile,    \* cpp_files.json
    files,        \* the paths that exist on the filesystem
    issued,       \* history: the values uuid4() has returned
    created,      \* history: id -> clock at which its record was inserted
    sweptIds,     \* history: the ids cleanup_expired_files has removed
    expiredRuns,  \* history: the ids run_program was called on after their expiry
    last,         \* the call that has just returned
    loop          \* the asyncio event loop: the calls submitted and not yet
                  \* started, and whether the running handler is in subprocess.run

vars == << now, cpp_files, storeFile, files, issued, created, sweptIds,
           expiredRuns, last, loop >>

Call(op, file_id, at, req, step) ==
    [op |-> op, file_id |-> file_id, at |-> at, req |-> req,
     response |-> step.response, procs |-> step.procs, loaded |-> step.loaded]

\* uuid4() never repeats; the ids are numbered in the order it returns them.
Uuid4 == Cardinality(issued) + 1

\* The record of id was inserted and the clock t is past its expiration.
PastExpiry(id, t) ==
    id \in DOMAIN created /\ StrLess(Isoformat(created[id] + Day), Isoformat(t))

NoteExpiredRun(id, t) ==
    IF PastExpiry(id, t) THEN expiredRuns \cup {id} ELSE expiredRuns

\* No call is submitted and no handler runs; overlap is history: a
\* create_program was submitted while another one was waiting or running.
IdleLoop == [pending |-> {}, blocked |-> FALSE, overlap |-> FALSE]

\* Import of the module, then lifespan on a machine without cpp_files.json.
Init ==
    /\ loop = IdleLoop
    /\ now = 0
    /\ cpp_files = EmptyDict
    /\ storeFile = NoFile
    /\ files = {}
    /\ issued = {}
    /\ created = EmptyDict
    /\ sweptIds = {}
    /\ expiredRuns = {}
    /\ last = [op |-> "startup", file_id |-> 0, at |-> 0, req |-> NoRequest,
               response |-> [started |-> TRUE], procs |-> << >>, loaded |-> TRUE]

\* ---------------------------------------------------------------- actions
\* Time passes between two calls.
Tick ==
    /\ now < MaxTime
    /\ now' = now + 1
    /\ last' = [op |-> "tick", file_id |-> 0, at |-> now + 1, req |-> NoRequest,
                response |-> [idle |-> TRUE], procs |-> << >>, loaded |-> FALSE]
    /\ UNCHANGED << cpp_files, storeFile, files, issued, created, sweptIds,
                    expiredRuns >>

\* lifespan, entered with the in-memory store m: load_cpp_files, then
\* cleanup_expired_files.  A load that raises leaves lifespan before the
\* global is rebound, so m, the store file and the files stay as they were.
Lifespan(m, file, fs, t, denied) ==
    LET step == CleanupExpiredFiles(LoadCppFiles(file), file, fs, t, denied)
    IN  IF LoadRaises(file)
        THEN [cpp_files |-> m, storeFile |-> file, files |-> fs, swept |-> {},
              response |-> Raised("UnicodeDecodeError"), loaded |-> FALSE]
        ELSE [cpp_files |-> step.cpp_files, storeFile |-> step.storeFile,
              files |-> step.files, swept |-> step.swept,
              response |-> [started |-> TRUE], loaded |-> TRUE]

\* The process ends and starts again: the import binds cpp_files = {}, then
\* the server enters lifespan.
Restart(denied) ==
    LET step == Lifespan(EmptyDict, storeFile, files, now, denied)
    IN  /\ cpp_files' = step.cpp_files
        /\ storeFile' = step.storeFile
        /\ files' = step.files
        /\ sweptIds' = sweptIds \cup step.swept
        /\ last' = [op |-> "startup", file_id |-> 0, at |-> now,
                    req |-> NoRequest, response |-> step.response,
                    procs |-> << >>, loaded |-> step.loaded]
        /\ UNCHANGED << now, issued, created, expiredRuns >>

\* The tool create_program.
CreateProgram(content, denied) ==
    LET file_id == Uuid4
        step == CreateProgramStep(cpp_files, storeFile, files, now, file_id,
                                  content, denied)
    IN  /\ file_id \in Ids
        /\ issued' = issued \cup {file_id}
        /\ cpp_files' = step.cpp_files
        /\ storeFile' = step.storeFile
        /\ files' = step.files
        /\ created' = IF IsSuccess(step.response)
                      THEN DictSet(created, file_id, now) ELSE created
        /\ last' = Call("create_program", file_id, now, NoRequest, step)
        /\ UNCHANGED << now, sweptIds, expiredRuns >>

\* The tool run_program.
RunProgram(file_id, req, outcome, denied) ==
    LET step == IF LoadRaises(storeFile)
                THEN Step(cpp_files, storeFile, files,
                          Raised("UnicodeDecodeError"), << >>, FALSE)
                ELSE RunProgramStep(storeFile, files, now, file_id,
                                    req.custom_input, req.expected_output,
                                    outcome, denied)
    IN  /\ cpp_files' = step.cpp_files
        /\ storeFile' = step.storeFile
        /\ files' = step.files
        /\ expiredRuns' = NoteExpiredRun(file_id, now)
        /\ last' = Call("run_program", file_id, now, req, step)
        /\ UNCHANGED << now, issued, created, sweptIds >>

\* The tool create_and_run_program; the run reads the clock gap units after
\* the build did.
CreateAndRunProgram(content, req, outcome, gap, denied) ==
    LET file_id == Uuid4
        step == CreateAndRunStep(cpp_files, storeFile, files, now, gap, file_id,
                                 content, req.custom_input, req.expected_output,
                                 outcome, denied)
        built == Clang(content).returncode = 0
    IN  /\ file_id \in Ids
        /\ now + gap <= MaxTime
        /\ issued' = issued \cup {file_id}
        /\ now' = IF built THEN now + gap ELSE now
        /\ cpp_files' = step.cpp_files
        /\ storeFile' = step.storeFile
        /\ files' = step.files
        /\ created' = IF built THEN DictSet(created, file_id, now) ELSE created
        /\ last' = Call("create_and_run_program", file_id, now, req, step)
        /\ UNCHANGED << sweptIds, expiredRuns >>

\* A filesystem on which every os.remove of an existing file succeeds.
NoDenial == {}

\* The calls arrive one at a time: each is served before the next is submitted.
Next ==
    \/ Tick /\ UNCHANGED loop
    \/ Restart(NoDenial) /\ UNCHANGED loop
    \/ \E content \in Contents : CreateProgram(content, NoDenial) /\ UNCHANGED loop
    \/ \E file_id \in Ids, req \in Requests, outcome \in RunOutcomes :
          RunProgram(file_id, req, outcome, NoDenial) /\ UNCHANGED loop
    \/ \E content \in Contents, req \in Requests, outcome \in RunOutcomes,
          gap \in 0..MaxGap :
          CreateAndRunProgram(content, req, outcome, gap, NoDenial) /\ UNCHANGED loop

Spec == Init /\ [][Next]_vars

\* A filesystem that may refuse one os.remove per call: of a file that
\* exists, or of one the call is about to write.  The request arguments do
\* not reach the filesystem and are held fixed; an execution either ends by
\* itself with status 0 or exceeds the timeout.
Paths == {SourcePath(id) : id \in Ids} \cup {OutputPath(id) : id \in Ids} \cup {GmonOut}
Denials(fs) == {{}} \cup {{p} : p \in fs}
FsOutcomes == {outcome \in RunOutcomes : outcome.returncode = 0}

NextFS ==
    \/ Tick /\ UNCHANGED loop
    \/ \E denied \in Denials(files) : Restart(denied) /\ UNCHANGED loop
    \/ \E content \in Contents,
          denied \in Denials(files \cup {SourcePath(Uuid4)}) :
          CreateProgram(content, denied) /\ UNCHANGED loop
    \/ \E file_id \in Ids, outcome \in FsOutcomes,
          denied \in Denials(files \cup {GmonOut}) :
          RunProgram(file_id, NoRequest, outcome, denied) /\ UNCHANGED loop
    \/ \E content \in Contents, outcome \in FsOutcomes, gap \in 0..MaxGap,
          denied \in Denials(files \cup {SourcePath(Uuid4), GmonOut}) :
          CreateAndRunProgram(content, NoRequest, outcome, gap, denied) /\ UNCHANGED loop

SpecFS == Init /\ [][NextFS]_vars

\* What can be found in place of a cpp_files.json the program wrote: nothing,
\* text that is not JSON (an empty or truncated file), bytes that are not text.
DamagedFiles ==
    { NoFile,
      [exists |-> TRUE, text |-> TRUE, valid |-> FALSE, entries |-> {}],
      [exists |-> TRUE, text |-> FALSE, valid |-> FALSE, entries |-> {}] }

\* The store file is lost or damaged between two calls.
DamageStore(damaged) ==
    /\ storeFile # damaged
    /\ storeFile' = damaged
    /\ last' = [op |-> "damage", file_id |-> 0, at |-> now, req |-> NoRequest,
                response |-> [idle |-> TRUE], procs |-> << >>, loaded |-> FALSE]
    /\ UNCHANGED << now, cpp_files, files, issued, created, sweptIds, expiredRuns >>

NextDamaged ==
    \/ Tick /\ UNCHANGED loop
    \/ Restart(NoDenial) /\ UNCHANGED loop
    \/ \E content \in Contents : CreateProgram(content, NoDenial) /\ UNCHANGED loop
    \/ \E file_id \in Ids, outcome \in FsOutcomes :
          RunProgram(file_id, NoRequest, outcome, NoDenial) /\ UNCHANGED loop
    \/ \E content \in Contents, outcome \in FsOutcomes, gap \in 0..MaxGap :
          CreateAndRunProgram(content, NoRequest, outcome, gap, NoDenial) /\ UNCHANGED loop
    \/ \E damaged \in DamagedFiles : DamageStore(damaged) /\ UNCHANGED loop

SpecDamaged == Init /\ [][NextDamaged]_vars

\* ---------------------------------------------------------- the event loop
\* The tools are coroutines of one asyncio event loop.  A handler has no
\* await that suspends it: subprocess.run is a blocking call made on the
\* loop's thread, so until it returns the loop starts no other coroutine.
CreateCall(content) == [op |-> "create_program", content |-> content, file_id |-> 0]
RunCall(file_id) == [op |-> "run_program", content |-> "", file_id |-> file_id]
LoopCalls == {CreateCall(c) : c \in Contents} \cup {RunCall(id) : id \in Ids}

PendingCreates == Cardinality({c \in loop.pending : c.op = "create_program"})
\* The loop is inside the subprocess.run of a create_program handler.
Compiling == loop.blocked /\ last.op = "create_program"

\* A client submits a call while others may be waiting or running.
Submit(call) ==
    /\ call \notin loop.pending
    /\ Cardinality(loop.pending) < MaxPending
    /\ call.op = "create_program" => Cardinality(issued) + PendingCreates < MaxIds
    /\ loop' = [loop EXCEPT !.pending = @ \cup {call},
                            !.overlap = \/ @
                                        \/ /\ call.op = "create_program"
                                           /\ (PendingCreates > 0 \/ Compiling)]
    /\ UNCHANGED << now, cpp_files, storeFile, files, issued, created, sweptIds,
                    expiredRuns, last >>

\* The loop starts the coroutine of a waiting call; the handler runs to its
\* end, and the loop stays blocked while its subprocesses run.
Serve(call, outcome) ==
    /\ ~loop.blocked
    /\ call \in loop.pending
    /\ \/ /\ call.op = "create_program"
          /\ CreateProgram(call.content, NoDenial)
       \/ /\ call.op = "run_program"
          /\ RunProgram(call.file_id, NoRequest, outcome, NoDenial)
    /\ loop' = [loop EXCEPT !.pending = @ \ {call},
                            !.blocked = last'.procs # << >>]

\* The last subprocess.run of the running handler returns; the response goes
\* back to the client and the loop is free again.
SubprocessReturns ==
    /\ loop.blocked
    /\ loop' = [loop EXCEPT !.blocked = FALSE]
    /\ UNCHANGED << now, cpp_files, storeFile, files, issued, created, sweptIds,
                    expiredRuns, last >>

\* A subprocess lasts seconds; the clock of the model does not advance
\* while the loop is blocked.
NextLoop ==
    \/ ~loop.blocked /\ Tick /\ UNCHANGED loop
    \/ \E call \in LoopCalls : Submit(call)
    \/ \E call \in LoopCalls, outcome \in FsOutcomes : Serve(call, outcome)
    \/ SubprocessReturns

SpecLoop == Init /\ [][NextLoop]_vars

TypeOK ==
    /\ now \in Times
    /\ DOMAIN cpp_files \subseteq Ids
    /\ issued \subseteq Ids
    /\ DOMAIN created \subseteq issued
    /\ sweptIds \subseteq DOMAIN created
    /\ expiredRuns \subseteq DOMAIN created
    /\ files \subseteq Paths
    /\ loop.pending \subseteq LoopCalls
    /\ loop.blocked \in BOOLEAN
    /\ loop.overlap \in BOOLEAN

\* ------------------------------------------------------------------ claims
\* The id a successful build has just returned.
ReturnsId(call) ==
    \/ call.op = "create_program" /\ IsSuccess(call.response)
    \/ call.op = "create_and_run_program" /\ "create_result" \in DOMAIN call.response
ReturnedId(call) ==
    IF call.op = "create_program" THEN call.response.file_id
    ELSE call.response.create_result.file_id

\* C1: a run_program on an id create_program returned, made while the clock
\* is not past the record's expiration, is never answered not-found or
\* expired, whatever calls, timeouts and restarts came in between; and an id
\* returned by a build differs from every id returned before.
C1_RunnableWithinWindow ==
    /\ [](( /\ last.op = "run_program"
            /\ last.file_id \in DOMAIN created
            /\ ~PastExpiry(last.file_id, last.at) )
          => ( /\ ~IsError(last.response, NotFound.error)
               /\ ~IsError(last.response, Expired.error) ))
    /\ [][ReturnsId(last') => ReturnedId(last') \notin DOMAIN created]_vars

\* A record is run at the very instant of its expiration, after another
\* record was created.
C1_Witness ==
    /\ last.op = "run_program"
    /\ IsSuccess(last.response)
    /\ last.file_id \in DOMAIN created
    /\ last.at = created[last.file_id] + Day
    /\ Cardinality(DOMAIN created) = 2

\* C2: when the compiler exits nonzero, create_program answers success=false
\* with the compiler's error text, leaves cpp_files and the store file as
\* they were, leaves no source and no output file of the generated id, and
\* every later run_program on that id is answered not-found.
C2_FailedBuildLeavesNothing ==
    /\ [][( /\ last'.op = "create_program"
            /\ last'.procs[1].result.returncode # 0 )
          => ( /\ last'.response = [success |-> FALSE,
                                    error |-> last'.procs[1].result.stderr]
               /\ cpp_files' = cpp_files
               /\ storeFile' = storeFile
               /\ SourcePath(last'.file_id) \notin files'
               /\ OutputPath(last'.file_id) \notin files' )]_vars
    /\ [](( /\ last.op = "run_program"
            /\ last.file_id \in issued \ DOMAIN created )
          => last.response = NotFound)

\* The id of a failed build is run while the store holds a record.
C2_Witness ==
    /\ last.op = "run_program"
    /\ last.file_id \in issued \ DOMAIN created
    /\ last.response = NotFound
    /\ cpp_files # EmptyDict

\* C3: run_program on an id that is no key of the persisted store answers
\* not-found, starts no subprocess and leaves the store file and the files
\* as they were; the records in memory are those of the store file.
C3_UnknownIdNoSideEffects ==
    [][( /\ last'.op = "run_program"
         /\ last'.file_id \notin DOMAIN LoadCppFiles(storeFile) )
       => ( /\ last'.response = NotFound
            /\ last'.procs = << >>
            /\ storeFile' = storeFile
            /\ files' = files
            /\ cpp_files' = LoadCppFiles(storeFile) )]_vars

\* An id uuid4() never returned is run while the store holds a record.
C3_Witness ==
    /\ last.op = "run_program"
    /\ last.file_id \notin issued
    /\ last.response = NotFound
    /\ cpp_files # EmptyDict
    /\ files # {}

\* The record of id and its two files are gone after the step.
Removed(id) ==
    /\ id \notin DOMAIN cpp_files'
    /\ id \notin DOMAIN LoadCppFiles(storeFile')
    /\ SourcePath(id) \notin files'
    /\ OutputPath(id) \notin files'

\* The step is the first run_program on an id since its record expired.
FirstExpiredRun ==
    /\ last'.op = "run_program"
    /\ PastExpiry(last'.file_id, now)
    /\ last'.file_id \notin expiredRuns
\* The step is a later one.
LaterExpiredRun ==
    /\ last'.op = "run_program"
    /\ PastExpiry(last'.file_id, now)
    /\ last'.file_id \in expiredRuns

\* C4 as stated: the first run_program after a record's expiry answers
\* Expired, starts no subprocess and removes the record and both files, also
\* when the process restarted in between; the second answers not-found.
C4_AsStated ==
    [][ /\ FirstExpiredRun => ( /\ last'.response = Expired
                                /\ last'.procs = << >>
                                /\ Removed(last'.file_id) )
        /\ LaterExpiredRun => last'.response = NotFound ]_vars

\* C4 amended: the first run_program after a record's expiry answers Expired,
\* starts no subprocess and removes the record and both files, unless the
\* sweep of lifespan, entered at a process start after the expiry, has
\* already removed them, and then it answers not-found; every later
\* run_program answers not-found.
C4_ExpiredThenNotFound ==
    [][ /\ (FirstExpiredRun /\ last'.file_id \notin sweptIds)
              => ( /\ last'.response = Expired
                   /\ last'.procs = << >>
                   /\ last'.file_id \in DOMAIN LoadCppFiles(storeFile)
                   /\ Removed(last'.file_id) )
        /\ (FirstExpiredRun /\ last'.file_id \in sweptIds)
              => ( /\ last'.response = NotFound
                   /\ Removed(last'.file_id) )
        /\ LaterExpiredRun => ( /\ last'.response = NotFound
                                /\ Removed(last'.file_id) ) ]_vars

\* The second call: not-found for an id whose expired record an earlier
\* run_program (no sweep) removed.
C4_Witness ==
    /\ last.op = "run_program"
    /\ last.response = NotFound
    /\ last.file_id \in expiredRuns
    /\ last.file_id \notin sweptIds

\* C5: a run that exceeds the timeout answers success=false with the timeout
\* error and nothing else, and leaves the record, the store file and the
\* files as they were; a run_program on the same id right after it, within
\* the validity window, is answered neither not-found nor expired.
C5_TimeoutKeepsArtifact ==
    /\ [][( /\ last'.op = "run_program"
            /\ last'.procs # << >>
            /\ last'.procs[1].result.duration > RunTimeout )
          => ( /\ last'.response = TimedOut
               /\ DOMAIN last'.response = {"success", "error"}
               /\ Len(last'.procs) = 1
               /\ cpp_files' = LoadCppFiles(storeFile)
               /\ storeFile' = storeFile
               /\ files' = files
               /\ last'.file_id \in DOMAIN cpp_files' )]_vars
    /\ [][( /\ last.op = "run_program"
            /\ last.response = TimedOut
            /\ last'.op = "run_program"
            /\ last'.file_id = last.file_id
            /\ ~PastExpiry(last.file_id, now) )
          => ( /\ last'.response # NotFound
               /\ last'.response # Expired )]_vars

\* A run of a record timed out at the instant of the record's expiration.
C5_Witness ==
    /\ last.op = "run_program"
    /\ last.response = TimedOut
    /\ last.at = created[last.file_id] + Day
    /\ last.file_id \in DOMAIN cpp_files

\* C6: create_and_run_program with source that does not compile answers the
\* build failure without a run result, and does not reload the store nor
\* start the artifact or the profiler.
C6_FailedBuildNeverRuns ==
    ( /\ last.op = "create_and_run_program"
      /\ last.procs[1].result.returncode # 0 )
    => ( /\ last.response = [success |-> FALSE,
                             error |-> last.procs[1].result.stderr]
         /\ "run_result" \notin DOMAIN last.response
         /\ ~last.loaded
         /\ Len(last.procs) = 1
         /\ last.procs[1].cmd = "clang++" )

\* A failed create_and_run_program while the store holds a record.
C6_Witness ==
    /\ last.op = "create_and_run_program"
    /\ ~IsSuccess(last.response)
    /\ "error" \in DOMAIN last.response
    /\ cpp_files # EmptyDict

\* C7: after a successful build, create_and_run_program runs the new id with
\* the request's stdin and expected output, answers create_result and
\* run_result, and returns with the new record in the store (memory and
\* file) and both its files present, whether the run ended or timed out.
C7_CreateAndRunKeepsArtifact ==
    ( /\ last.op = "create_and_run_program"
      /\ last.procs[1].result.returncode = 0 )
    => LET id == last.file_id
           run == last.response.run_result
       IN  /\ DOMAIN last.response = {"create_result", "run_result"}
           /\ last.response.create_result = [success |-> TRUE, file_id |-> id]
           /\ Len(last.procs) >= 2
           /\ last.procs[2].cmd = "artifact"
           /\ last.procs[2].path = OutputPath(id)
           /\ last.procs[2].stdin = last.req.custom_input
           /\ \/ run = TimedOut
              \/ /\ IsSuccess(run)
                 /\ run.stdout = last.procs[2].result.stdout
                 /\ run.diff = DiffResult(last.req.expected_output, run.stdout)
           /\ id \in DOMAIN cpp_files
           /\ id \in DOMAIN LoadCppFiles(storeFile)
           /\ SourcePath(id) \in files
           /\ OutputPath(id) \in files

\* The run inside create_and_run_program timed out, with stdin "x".
C7_Witness ==
    /\ last.op = "create_and_run_program"
    /\ "run_result" \in DOMAIN last.response
    /\ last.response.run_result = TimedOut
    /\ last.req.custom_input = "x"
    /\ last.file_id \in DOMAIN cpp_files

\* C8 as stated: a run_program made when the clock is at or after the
\* expiration of the record it finds (now >= expiresAt) answers Expired and
\* does not start the artifact.
C8_NeverRunsAtOrAfterExpiration ==
    [][( /\ last'.op = "run_program"
         /\ last'.file_id \in DOMAIN LoadCppFiles(storeFile)
         /\ ~StrLess(Isoformat(now),
                     LoadCppFiles(storeFile)[last'.file_id].expiration) )
       => ( /\ last'.response = Expired
            /\ last'.procs = << >> )]_vars

\* C9: every record, in memory and in the store file, has the paths of its
\* id and the expiration "creation time plus 24 hours" for as long as it
\* exists, whatever runs, sweeps, reloads and restarts happen.
C9_ExpirationWriteOnce ==
    LET Written(id) == [output_path |-> OutputPath(id),
                        source_path |-> SourcePath(id),
                        expiration |-> Isoformat(created[id]
                                          + RetentionDays * SecPerDay * UsPerSec)]
        persisted == LoadCppFiles(storeFile)
    IN  /\ DOMAIN cpp_files \subseteq DOMAIN created
        /\ DOMAIN persisted \subseteq DOMAIN created
        /\ \A id \in DOMAIN cpp_files : cpp_files[id] = Written(id)
        /\ \A id \in DOMAIN persisted : persisted[id] = Written(id)

\* A record created earlier has just been run to a timeout and is still there.
C9_Witness ==
    /\ last.op = "run_program"
    /\ last.response = TimedOut
    /\ last.file_id \in DOMAIN cpp_files
    /\ now > created[last.file_id]
    /\ Cardinality(DOMAIN cpp_files) = 2

\* C10: a run that ends within the timeout with a nonzero exit status or by a
\* signal answers success=true with the captured stdout and stderr and leaves
\* the record, the store file and the files as they were; the only failures
\* run_program answers are not-found, expired and timeout.
C10_CrashIsNotAFailure ==
    /\ [][( /\ last'.op = "run_program"
            /\ last'.procs # << >>
            /\ last'.procs[1].result.duration <= RunTimeout
            /\ last'.procs[1].result.returncode # 0 )
          => ( /\ IsSuccess(last'.response)
               /\ last'.response.stdout = last'.procs[1].result.stdout
               /\ last'.response.stderr = last'.procs[1].result.stderr
               /\ cpp_files' = LoadCppFiles(storeFile)
               /\ storeFile' = storeFile
               /\ files' = files
               /\ last'.file_id \in DOMAIN cpp_files' )]_vars
    /\ [](( /\ last.op = "run_program"
            /\ ~IsSuccess(last.response) )
          => last.response \in {NotFound, Expired, TimedOut})

\* An artifact killed by a signal, which leaves no gmon.out: success with an
\* empty profiling report.
C10_Witness ==
    /\ last.op = "run_program"
    /\ IsSuccess(last.response)
    /\ last.procs[1].result.returncode < 0
    /\ ~last.procs[1].result.gmon
    /\ last.response.profiling_report = << >>

\* C11: whenever create_program, run_program or the startup sweep has ended,
\* by a response or by an exception, cpp_files.json holds exactly the records
\* of the in-memory cpp_files, also when an os.remove of the expired branch of
\* run_program fails.
C11_EveryMutationPersisted == LoadCppFiles(storeFile) = cpp_files

\* Both backing files of a record exist.
HasFiles(info) == info.source_path \in files /\ info.output_path \in files

\* C12: in every state reached by create_program, run_program,
\* create_and_run_program, the startup sweep and restarts, every record of
\* the store, in memory or in cpp_files.json, has its source file and its
\* output file on the filesystem.
C12_RecordsHaveFiles ==
    /\ \A id \in DOMAIN cpp_files : HasFiles(cpp_files[id])
    /\ \A id \in DOMAIN LoadCppFiles(storeFile) : HasFiles(LoadCppFiles(storeFile)[id])

\* The records of m whose expiration is at or before the clock t.
DueAt(m, t) == {id \in DOMAIN m : ~StrLess(Isoformat(t), m[id].expiration)}

\* C13: the sweep at clock now removes from the store every record whose
\* expiration is at or before now and keeps every other record unchanged; it
\* writes cpp_files.json, with the records kept, when it removed a record and
\* leaves the file alone when it removed none.
C13_SweepRemovesAtOrBefore ==
    [][ last'.op = "startup" =>
          LET m == LoadCppFiles(storeFile)
              due == DueAt(m, now)
          IN  /\ DOMAIN cpp_files' = (DOMAIN m) \ due
              /\ \A id \in DOMAIN cpp_files' : cpp_files'[id] = m[id]
              /\ due # {} => storeFile' = SaveCppFiles(cpp_files')
              /\ due = {} => storeFile' = storeFile ]_vars

\* C14: when a run_program call has returned, whichever id it was given, no
\* record whose expiration has passed is left in the store, in memory or in
\* cpp_files.json, and the backing files of those records are deleted.
C14_RunProgramSweepsFirst ==
    last.op = "run_program" =>
        \A id \in DOMAIN created :
            PastExpiry(id, last.at) =>
                /\ id \notin DOMAIN cpp_files
                /\ id \notin DOMAIN LoadCppFiles(storeFile)
                /\ SourcePath(id) \notin files
                /\ OutputPath(id) \notin files

\* The expired records the sweep found with both files in place and of which
\* a file is left afterwards: the records whose deletion failed.
FailedDeletions(m, del) ==
    {id \in del : /\ m[id].source_path \in files /\ m[id].output_path \in files
                  /\ (m[id].source_path \in files' \/ m[id].output_path \in files')}

\* C15: when an os.remove fails for one expired record during the sweep, the
\* startup still completes and the sweep goes on: every expired record, the failing one included, is removed
\* from the store, every other expired record whose files were in place loses
\* both files, and cpp_files.json is written with the records kept.
C15_SweepSurvivesDeletionFailure ==
    [][ last'.op = "startup" =>
          LET m == LoadCppFiles(storeFile)
              del == ToDelete(m, now)
          IN  /\ last'.response = [started |-> TRUE]
              /\ cpp_files' = [id \in (DOMAIN m) \ del |-> m[id]]
              /\ del # {} => storeFile' = SaveCppFiles(cpp_files')
              /\ Cardinality(FailedDeletions(m, del)) <= 1 ]_vars

\* A sweep has removed two records that expired together; a file of the
\* first is left, the files of the second are gone, the store is saved empty.
C15_Witness ==
    /\ last.op = "startup"
    /\ sweptIds = {1, 2}
    /\ created[1] = created[2]
    /\ SourcePath(1) \in files /\ OutputPath(1) \in files
    /\ SourcePath(2) \notin files /\ OutputPath(2) \notin files
    /\ cpp_files = EmptyDict
    /\ storeFile = SaveCppFiles(EmptyDict)

\* cpp_files.json is missing, or its content is not the JSON text of a mapping.
MissingOrMalformed(file) == ~file.exists \/ ~file.text \/ ~file.valid

\* C17: when cpp_files.json is missing or malformed, startup (load, then
\* sweep) and run_program end without an exception, the in-memory store is
\* the empty mapping afterwards, and run_program answers not-found.
C17_LoadNeverFails ==
    [][ (MissingOrMalformed(storeFile) /\ last'.op \in {"startup", "run_program"})
          => ( /\ ~IsRaised(last'.response)
               /\ cpp_files' = EmptyDict
               /\ last'.op = "run_program" => last'.response = NotFound ) ]_vars

\* The step is a run_program that finds the record of its id expired.
EntersExpiredBranch ==
    /\ last'.op = "run_program"
    /\ last'.file_id \in DOMAIN LoadCppFiles(storeFile)
    /\ IsExpired(LoadCppFiles(storeFile)[last'.file_id], now)
\* An os.remove of the step failed: a file of the record was missing before
\* the step or is left after it.
DeletionFailed(info) ==
    \/ ~HasFiles(info)
    \/ info.source_path \in files'
    \/ info.output_path \in files'

\* C16: when run_program finds its record expired and an os.remove of the
\* source or output file fails, the call still answers Expired, the record is
\* removed from the store and cpp_files.json is written without it.
C16_ExpiredBranchSurvivesDeletionFailure ==
    [][ (EntersExpiredBranch /\ DeletionFailed(LoadCppFiles(storeFile)[last'.file_id]))
          => ( /\ last'.response = Expired
               /\ last'.file_id \notin DOMAIN cpp_files'
               /\ storeFile' = SaveCppFiles(cpp_files') ) ]_vars

\* C18: while the handler of one call waits for its subprocess, the event
\* loop can start the handler of another call that has been submitted.
C18_SubprocessDoesNotBlock ==
    (loop.blocked /\ loop.pending # {})
        => ENABLED (\E call \in LoopCalls, outcome \in FsOutcomes : Serve(call, outcome))

\* C19: when every submitted call has finished, cpp_files.json holds, with
\* the expiration it was given, the record of every id a build has returned,
\* except the ids the expired branch of run_program has removed.
C19_NoLostUpdate ==
    (loop.pending = {} /\ ~loop.blocked) =>
        \A id \in DOMAIN created :
            \/ id \in expiredRuns
            \/ /\ id \in DOMAIN LoadCppFiles(storeFile)
               /\ LoadCppFiles(storeFile)[id] =
                      NewRecord(id, SourcePath(id), OutputPath(id), created[id])

\* Two builds have finished, one of them submitted while the other was
\* waiting or running, and both records are in cpp_files.json.
C19_Witness ==
    /\ loop.pending = {} /\ ~loop.blocked
    /\ loop.overlap
    /\ Cardinality(DOMAIN created) = 2
    /\ DOMAIN LoadCppFiles(storeFile) = DOMAIN created

\* C20: after every call and every sweep, a source file or output file under
\* cpps/ belongs to an id that is a record of the store, in memory or in
\* cpp_files.json, also when an os.remove has failed.
C20_NoOrphanFiles ==
    \A id \in Ids :
        (SourcePath(id) \in files \/ OutputPath(id) \in files)
            => (id \in DOMAIN cpp_files \/ id \in DOMAIN LoadCppFiles(storeFile))
====
